---- MODULE Spec2Model ----
(***************************************************************************)
(* A model of grayscale-svg.js: convertSvgToGrayscale and its helpers      *)
(* detectStyleElements, expandStyleAttributes, traverseAndGrayscale and    *)
(* toGray, together with the parts of the colour parser (tinycolor2 1.6.0) *)
(* that toGray calls.                                                      *)
(*                                                                         *)
(* A JavaScript string is a sequence of one-character strings, so that     *)
(* split, trim, startsWith and the colour parser work on the characters.   *)
(* A JavaScript number is an exact rational <<n, d>> with d > 0.           *)
(***************************************************************************)
EXTENDS Integers, Sequences, FiniteSets, TLC

(***************************************************************************)
(* Strings                                                                 *)
(***************************************************************************)

\* The JavaScript value undefined, distinct from every string.
Undefined == <<"undefined">>

IsString(v) == v # Undefined

\* JavaScript truthiness of a string-or-undefined value.
Truthy(v) == v # Undefined /\ v # <<>>

UpperChars == <<"A","B","C","D","E","F","G","H","I","J","K","L","M",
                "N","O","P","Q","R","S","T","U","V","W","X","Y","Z">>
LowerChars == <<"a","b","c","d","e","f","g","h","i","j","k","l","m",
                "n","o","p","q","r","s","t","u","v","w","x","y","z">>

ToLowerChar(c) ==
    IF \E i \in DOMAIN UpperChars : UpperChars[i] = c
    THEN LowerChars[CHOOSE i \in DOMAIN UpperChars : UpperChars[i] = c]
    ELSE c

ToLowerCase(s) == [i \in DOMAIN s |-> ToLowerChar(s[i])]

IsSpace(c) == c \in {" ", "\t", "\n", "\r"}

RECURSIVE TrimLeft(_)
TrimLeft(s) == IF s # <<>> /\ IsSpace(Head(s)) THEN TrimLeft(Tail(s)) ELSE s

RECURSIVE TrimRight(_)
TrimRight(s) ==
    IF s # <<>> /\ IsSpace(s[Len(s)]) THEN TrimRight(SubSeq(s, 1, Len(s) - 1)) ELSE s

\* String.prototype.trim
Trim(s) == TrimRight(TrimLeft(s))

\* String.prototype.startsWith
StartsWith(s, p) == Len(s) >= Len(p) /\ SubSeq(s, 1, Len(p)) = p

\* String.prototype.split with a one-character separator: every separator
\* cuts, so "a:b:c" gives three parts and "" gives one empty part.
RECURSIVE SplitFrom(_, _, _)
SplitFrom(s, sep, cur) ==
    IF s = <<>> THEN <<cur>>
    ELSE IF Head(s) = sep THEN <<cur>> \o SplitFrom(Tail(s), sep, <<>>)
    ELSE SplitFrom(Tail(s), sep, Append(cur, Head(s)))

Split(s, sep) == SplitFrom(s, sep, <<>>)

HexDigits == <<"0","1","2","3","4","5","6","7","8","9","a","b","c","d","e","f">>

IsHexChar(c) == \E i \in DOMAIN HexDigits : HexDigits[i] = ToLowerChar(c)

HexVal(c) == (CHOOSE i \in DOMAIN HexDigits : HexDigits[i] = ToLowerChar(c)) - 1

IsDigit(c) == c \in {"0","1","2","3","4","5","6","7","8","9"}

\* Number.prototype.toString(16) of an integer in 0..255
ToString16(n) ==
    IF n < 16 THEN <<HexDigits[n + 1]>>
    ELSE <<HexDigits[(n \div 16) + 1], HexDigits[(n % 16) + 1]>>

\* String.prototype.padStart(2, '0')
PadStart2(s) == IF Len(s) < 2 THEN <<"0">> \o s ELSE s

(***************************************************************************)
(* Numbers: exact rationals                                                *)
(***************************************************************************)

Abs(n) == IF n < 0 THEN -n ELSE n

RECURSIVE Gcd(_, _)
Gcd(a, b) == IF b = 0 THEN a ELSE Gcd(b, a % b)

Norm(n, d) ==
    LET g == Gcd(Abs(n), d) IN IF n = 0 THEN <<0, 1>> ELSE <<n \div g, d \div g>>

R(n) == <<n, 1>>

RAdd(x, y) ==
    LET g == Gcd(x[2], y[2])
    IN  Norm(x[1] * (y[2] \div g) + y[1] * (x[2] \div g), (x[2] \div g) * y[2])

RNeg(x) == <<-x[1], x[2]>>

RSub(x, y) == RAdd(x, RNeg(y))

RMul(x, y) ==
    LET g1 == IF x[1] = 0 THEN 1 ELSE Gcd(Abs(x[1]), y[2])
        g2 == IF y[1] = 0 THEN 1 ELSE Gcd(Abs(y[1]), x[2])
    IN  Norm((x[1] \div g1) * (y[1] \div g2), (x[2] \div g2) * (y[2] \div g1))

RInv(x) == IF x[1] < 0 THEN <<-x[2], -x[1]>> ELSE <<x[2], x[1]>>

RDiv(x, y) == RMul(x, RInv(y))

RLt(x, y) == x[1] * y[2] < y[1] * x[2]

RLe(x, y) == x[1] * y[2] <= y[1] * x[2]

RMin(x, y) == IF RLt(y, x) THEN y ELSE x

RMax(x, y) == IF RLt(x, y) THEN y ELSE x

\* Math.floor
Floor(x) == x[1] \div x[2]

\* parseInt(x, 10) of a number: truncation toward zero
ParseInt(x) == IF x[1] >= 0 THEN x[1] \div x[2] ELSE -((-x[1]) \div x[2])

\* Math.round: the nearest integer, a half rounding up
MathRound(x) == (2 * x[1] + x[2]) \div (2 * x[2])

(***************************************************************************)
(* The colour parser: tinycolor2, as called from toGray                    *)
(***************************************************************************)

\* A value handed to the parser's numeric helpers is a string (text captured
\* from a colour string) or a number.
StrV(t) == [isStr |-> TRUE, text |-> t, num |-> <<0, 1>>]
NumV(x) == [isStr |-> FALSE, text |-> <<>>, num |-> x]

CharAt(s, i) == IF i \in 1..Len(s) THEN s[i] ELSE ""

\* The first index at or after i whose character is not in set.
RECURSIVE SkipSet(_, _, _)
SkipSet(s, i, set) == IF CharAt(s, i) \in set THEN SkipSet(s, i + 1, set) ELSE i

DigitChars == {"0","1","2","3","4","5","6","7","8","9"}

\* [\s|\(]+ and [,|\s]+ of PERMISSIVE_MATCH3 / PERMISSIVE_MATCH4
OpenChars == {" ", "\t", "\n", "\r", "|", "("}
SepChars == {" ", "\t", "\n", "\r", "|", ","}

\* CSS_UNIT from index i1 on, after the sign at index i, with the digits
\* ending before index j: [-+]?\d*\.\d+%? or else [-+]?\d+%?
UnitEnd(s, j) ==
    IF CharAt(s, j) = "." /\ IsDigit(CharAt(s, j + 1))
    THEN SkipSet(s, j + 2, DigitChars)
    ELSE j

UnitFrom(s, i, i1, j, k) ==
    [ok |-> k > j \/ j > i1,
     end |-> IF CharAt(s, k) = "%" THEN k + 1 ELSE k,
     text |-> SubSeq(s, i, IF CharAt(s, k) = "%" THEN k ELSE k - 1)]

UnitAfterSign(s, i, i1, j) == UnitFrom(s, i, i1, j, UnitEnd(s, j))

ScanUnit(s, i) ==
    IF CharAt(s, i) \in {"-", "+"}
    THEN UnitAfterSign(s, i, i + 1, SkipSet(s, i + 1, DigitChars))
    ELSE UnitAfterSign(s, i, i, SkipSet(s, i, DigitChars))

NoUnits == [ok |-> FALSE, units |-> <<>>]

\* A unit and the units after it.
Units(u, rest) ==
    IF u.ok /\ rest.ok THEN [ok |-> TRUE, units |-> <<u.text>> \o rest.units] ELSE NoUnits

\* n times: [,|\s]+ and a unit, from index p on.
RECURSIVE MoreUnits(_, _, _)
RECURSIVE UnitThenMore(_, _, _)
UnitThenMore(s, u, n) == IF u.ok THEN Units(u, MoreUnits(s, u.end, n)) ELSE NoUnits

UnitsAfter(s, p, q, n) == IF q > p THEN UnitThenMore(s, ScanUnit(s, q), n - 1) ELSE NoUnits

MoreUnits(s, p, n) ==
    IF n = 0 THEN [ok |-> TRUE, units |-> <<>>]
    ELSE UnitsAfter(s, p, SkipSet(s, p, SepChars), n)

\* The units of kw + PERMISSIVE_MATCHn when the keyword starts at index i:
\* the keyword, [\s|\(]+, a unit, and n - 1 times a separator and a unit.
MatchUnitsAt(s, kw, i, n) ==
    IF i + Len(kw) - 1 <= Len(s) /\ SubSeq(s, i, i + Len(kw) - 1) = kw
    THEN UnitsAfter(s, i + Len(kw), SkipSet(s, i + Len(kw), OpenChars), n)
    ELSE NoUnits

\* RegExp.exec of an unanchored matcher: the leftmost position that matches.
LeftmostMatch(s, kw, n, hits) ==
    IF hits = {} THEN NoUnits
    ELSE MatchUnitsAt(s, kw, CHOOSE i \in hits : \A j \in hits : i <= j, n)

ExecMatcher(s, kw, n) ==
    LeftmostMatch(s, kw, n, {i \in 1..Len(s) : MatchUnitsAt(s, kw, i, n).ok})

\* The anchored matchers hex3, hex4, hex6, hex8: ^#?([0-9a-fA-F]...)$
HexBody(s) == IF CharAt(s, 1) = "#" THEN Tail(s) ELSE s

IsHexOfLen(s, n) ==
    Len(HexBody(s)) = n /\ \A i \in 1..n : IsHexChar(HexBody(s)[i])

\* parseIntFromHex
ParseIntFromHex(h) == IF Len(h) = 1 THEN HexVal(h[1]) ELSE 16 * HexVal(h[1]) + HexVal(h[2])

\* parseFloat of text that CSS_UNIT captured
RECURSIVE DigitsValue(_, _)
DigitsValue(s, acc) ==
    IF s = <<>> THEN acc
    ELSE DigitsValue(Tail(s), 10 * acc + ((CHOOSE i \in 1..10 : HexDigits[i] = Head(s)) - 1))

RECURSIVE Pow10(_)
Pow10(n) == IF n = 0 THEN 1 ELSE 10 * Pow10(n - 1)

\* The number of the digits s[i1..j-1], then '.' and s[j+1..k-1] if k > j.
FloatOf(t, i1, j, k) ==
    IF k > j
    THEN Norm(DigitsValue(SubSeq(t, i1, j - 1), 0) * Pow10(k - j - 1)
                + DigitsValue(SubSeq(t, j + 1, k - 1), 0),
              Pow10(k - j - 1))
    ELSE <<DigitsValue(SubSeq(t, i1, j - 1), 0), 1>>

FloatAfterSign(t, i1, j) == FloatOf(t, i1, j, UnitEnd(t, j))

ParseFloat(t) ==
    IF CharAt(t, 1) = "-" THEN RNeg(FloatAfterSign(t, 2, SkipSet(t, 2, DigitChars)))
    ELSE IF CharAt(t, 1) = "+" THEN FloatAfterSign(t, 2, SkipSet(t, 2, DigitChars))
    ELSE FloatAfterSign(t, 1, SkipSet(t, 1, DigitChars))

ToNumber(v) == IF v.isStr THEN ParseFloat(v.text) ELSE v.num

\* isPercentage: a string containing '%'
IsPercentage(v) == v.isStr /\ \E i \in DOMAIN v.text : v.text[i] = "%"

\* isOnePointZero: a string containing '.' whose parseFloat is 1
IsOnePointZero(v) ==
    v.isStr /\ (\E i \in DOMAIN v.text : v.text[i] = ".") /\ ParseFloat(v.text) = <<1, 1>>

\* A string n + "%" built from a number n (convertToPercentage).
PctV(x) == [isStr |-> TRUE, text |-> <<"%">>, num |-> x]

IsBuiltPct(v) == v.isStr /\ v.text = <<"%">>

\* parseFloat of a value
ValNumber(v) == IF IsBuiltPct(v) THEN v.num ELSE ToNumber(v)

\* x % m for x >= 0
RMod(x, m) == RSub(x, RMul(m, R(Floor(RDiv(x, m)))))

Epsilon == <<1, 1000000>>

\* The end of bound01: 1 when n is within 0.000001 of max, else (n % max) / max
\* Math.abs(x) < 0.000001, for x = p / q: |p| * 1000000 < q
WithinEpsilon(x) == Abs(x[1]) <= (x[2] - 1) \div Epsilon[2]

Wrap01(n, max) ==
    IF WithinEpsilon(RSub(n, R(max))) THEN R(1)
    ELSE RDiv(RMod(n, R(max)), R(max))

\* Math.min(max, Math.max(0, x))
ClampTo(x, max) == RMin(R(max), RMax(R(0), x))

\* bound01 of the number x of a value that is, or is not, a percentage
BoundNumber(processPercent, x, max) ==
    IF processPercent
    THEN Wrap01(RDiv(R(ParseInt(RMul(ClampTo(x, max), R(max)))), R(100)), max)
    ELSE Wrap01(ClampTo(x, max), max)

\* bound01(n, max): a number or a percentage taken into [0, 1]; a string
\* "1.0" counts as "100%"
Bound01(v, max) ==
    IF IsOnePointZero(v) THEN BoundNumber(TRUE, R(100), max)
    ELSE BoundNumber(IsPercentage(v), ValNumber(v), max)

\* convertToPercentage: if (n <= 1) n = n * 100 + "%"
PercentageOf(v, x) == IF RLe(x, R(1)) THEN PctV(RMul(x, R(100))) ELSE v

ConvertToPercentage(v) == IF IsPercentage(v) THEN v ELSE PercentageOf(v, ValNumber(v))

\* rgbToRgb
RgbToRgb(r, g, b) ==
    [r |-> RMul(Bound01(r, 255), R(255)),
     g |-> RMul(Bound01(g, 255), R(255)),
     b |-> RMul(Bound01(b, 255), R(255))]

\* rgbToHsl, from the channels in [0, 1] and their max and min
HueSixths(r, g, b, max, d) ==
    IF max = r THEN RAdd(RDiv(RSub(g, b), d), IF RLt(g, b) THEN R(6) ELSE R(0))
    ELSE IF max = g THEN RAdd(RDiv(RSub(b, r), d), R(2))
    ELSE RAdd(RDiv(RSub(r, g), d), R(4))

Saturation(l, d, sum) ==
    IF RLt(<<1, 2>>, l) THEN RDiv(d, RSub(R(2), sum)) ELSE RDiv(d, sum)

HslOfExtremes(r, g, b, max, min) ==
    IF max = min THEN [h |-> R(0), s |-> R(0), l |-> RDiv(RAdd(max, min), R(2))]
    ELSE [h |-> RDiv(HueSixths(r, g, b, max, RSub(max, min)), R(6)),
          s |-> Saturation(RDiv(RAdd(max, min), R(2)), RSub(max, min), RAdd(max, min)),
          l |-> RDiv(RAdd(max, min), R(2))]

HslOfChannels(r, g, b) ==
    HslOfExtremes(r, g, b, RMax(r, RMax(g, b)), RMin(r, RMin(g, b)))

\* rgbToHsl
RgbToHsl(r, g, b) ==
    HslOfChannels(Bound01(NumV(r), 255), Bound01(NumV(g), 255), Bound01(NumV(b), 255))

\* hue2rgb of hslToRgb, once t is in [0, 1]
Hue2RgbOf(p, q, t) ==
    IF RLt(t, <<1, 6>>) THEN RAdd(p, RMul(RMul(RSub(q, p), R(6)), t))
    ELSE IF RLt(t, <<1, 2>>) THEN q
    ELSE IF RLt(t, <<2, 3>>)
         THEN RAdd(p, RMul(RMul(RSub(q, p), RSub(<<2, 3>>, t)), R(6)))
    ELSE p

\* if (t < 0) t += 1; if (t > 1) t -= 1
WrapHue(t) ==
    IF RLt(t, R(0)) THEN RAdd(t, R(1))
    ELSE IF RLt(R(1), t) THEN RSub(t, R(1))
    ELSE t

Hue2Rgb(p, q, t) == Hue2RgbOf(p, q, WrapHue(t))

RgbOfPQ(p, q, h) ==
    [r |-> RMul(Hue2Rgb(p, q, RAdd(h, <<1, 3>>)), R(255)),
     g |-> RMul(Hue2Rgb(p, q, h), R(255)),
     b |-> RMul(Hue2Rgb(p, q, RSub(h, <<1, 3>>)), R(255))]

RgbOfQ(h, l, q) == RgbOfPQ(RSub(RMul(R(2), l), q), q, h)

RgbOfHsl(h, s, l) ==
    IF s = R(0)
    THEN [r |-> RMul(l, R(255)), g |-> RMul(l, R(255)), b |-> RMul(l, R(255))]
    ELSE RgbOfQ(h, l, IF RLt(l, <<1, 2>>) THEN RMul(l, RAdd(R(1), s))
                      ELSE RSub(RAdd(l, s), RMul(l, s)))

\* hslToRgb
HslToRgb(h, s, l) == RgbOfHsl(Bound01(h, 360), Bound01(s, 100), Bound01(l, 100))

\* boundAlpha
AlphaOf(a) == IF RLt(a, R(0)) \/ RLt(R(1), a) THEN R(1) ELSE a

BoundAlpha(v) == AlphaOf(ValNumber(v))

\* The colour names the model knows, with their hex values (from the
\* parser's names table, which has 148 further entries of the same kind).
ColorNames ==
    { <<<<"r","e","d">>, <<"f","0","0">>>>,
      <<<<"y","e","l","l","o","w">>, <<"f","f","0">>>>,
      <<<<"b","l","u","e">>, <<"0","0","f">>>>,
      <<<<"w","h","i","t","e">>, <<"f","f","f">>>>,
      <<<<"b","l","a","c","k">>, <<"0","0","0">>>> }

IsColorName(s) == \E e \in ColorNames : e[1] = s

NameHex(s) == (CHOOSE e \in ColorNames : e[1] = s)[2]

NoMatch ==
    [ok |-> FALSE, kind |-> "none", c1 |-> NumV(R(0)), c2 |-> NumV(R(0)),
     c3 |-> NumV(R(0)), hasA |-> FALSE, a |-> NumV(R(1))]

RgbObj(r, g, b) ==
    [ok |-> TRUE, kind |-> "rgb", c1 |-> r, c2 |-> g, c3 |-> b,
     hasA |-> FALSE, a |-> NumV(R(1))]

RgbaObj(r, g, b, a) ==
    [ok |-> TRUE, kind |-> "rgb", c1 |-> r, c2 |-> g, c3 |-> b, hasA |-> TRUE, a |-> a]

HslObj(h, s, l) ==
    [ok |-> TRUE, kind |-> "hsl", c1 |-> h, c2 |-> s, c3 |-> l,
     hasA |-> FALSE, a |-> NumV(R(1))]

HslaObj(h, s, l, a) ==
    [ok |-> TRUE, kind |-> "hsl", c1 |-> h, c2 |-> s, c3 |-> l, hasA |-> TRUE, a |-> a]

HexNum(c1, c2) == NumV(R(ParseIntFromHex(<<c1, c2>>)))

\* The objects of the matches.
RgbOfMatch(m) == RgbObj(StrV(m.units[1]), StrV(m.units[2]), StrV(m.units[3]))

RgbaOfMatch(m) ==
    RgbaObj(StrV(m.units[1]), StrV(m.units[2]), StrV(m.units[3]), StrV(m.units[4]))

HslOfMatch(m) == HslObj(StrV(m.units[1]), StrV(m.units[2]), StrV(m.units[3]))

HslaOfMatch(m) ==
    HslaObj(StrV(m.units[1]), StrV(m.units[2]), StrV(m.units[3]), StrV(m.units[4]))

\* The anchored hex matchers, on the text h after an optional '#'.
HexObject(color, h) ==
    IF IsHexOfLen(color, 8)
    THEN RgbaObj(HexNum(h[1], h[2]), HexNum(h[3], h[4]), HexNum(h[5], h[6]),
                 NumV(RDiv(R(ParseIntFromHex(<<h[7], h[8]>>)), R(255))))
    ELSE IF IsHexOfLen(color, 6)
    THEN RgbObj(HexNum(h[1], h[2]), HexNum(h[3], h[4]), HexNum(h[5], h[6]))
    ELSE IF IsHexOfLen(color, 4)
    THEN RgbaObj(HexNum(h[1], h[1]), HexNum(h[2], h[2]), HexNum(h[3], h[3]),
                 NumV(RDiv(R(ParseIntFromHex(<<h[4], h[4]>>)), R(255))))
    ELSE IF IsHexOfLen(color, 3)
    THEN RgbObj(HexNum(h[1], h[1]), HexNum(h[2], h[2]), HexNum(h[3], h[3]))
    ELSE NoMatch

\* The matchers in the parser's order: rgb, rgba, hsl, hsla, then the hex
\* ones (its hsv and hsva matchers are left out: no colour string of the
\* model contains "hsv").
HslaOrLater(color, hsla) ==
    IF hsla.ok THEN HslaOfMatch(hsla) ELSE HexObject(color, HexBody(color))

HslOrLater(color, hsl) ==
    IF hsl.ok THEN HslOfMatch(hsl)
    ELSE HslaOrLater(color, ExecMatcher(color, <<"h","s","l","a">>, 4))

RgbaOrLater(color, rgba) ==
    IF rgba.ok THEN RgbaOfMatch(rgba)
    ELSE HslOrLater(color, ExecMatcher(color, <<"h","s","l">>, 3))

RgbOrLater(color, rgb) ==
    IF rgb.ok THEN RgbOfMatch(rgb)
    ELSE RgbaOrLater(color, ExecMatcher(color, <<"r","g","b","a">>, 4))

MatchColor(color) == RgbOrLater(color, ExecMatcher(color, <<"r","g","b">>, 3))

\* The trimmed, lower-cased text: a name is replaced by its hex value, and
\* 'transparent' is the colour 0, 0, 0 of alpha 0.
NamedOrMatched(t) ==
    IF IsColorName(t) THEN MatchColor(NameHex(t))
    ELSE IF t = <<"t","r","a","n","s","p","a","r","e","n","t">>
    THEN RgbaObj(NumV(R(0)), NumV(R(0)), NumV(R(0)), NumV(R(0)))
    ELSE MatchColor(t)

\* stringInputToObject
StringInputToObject(str) == NamedOrMatched(ToLowerCase(Trim(str)))

\* The tinycolor constructor's channels: clamped to [0, 255] and rounded
\* when below 1.
RoundSmall(c) == IF RLt(c, R(1)) THEN R(MathRound(c)) ELSE c

Channel(x) == RoundSmall(RMin(R(255), RMax(x, R(0))))

Invalid == [ok |-> FALSE, r |-> R(0), g |-> R(0), b |-> R(0), a |-> R(1)]

MkColor(rgb, a) ==
    [ok |-> TRUE, r |-> Channel(rgb.r), g |-> Channel(rgb.g), b |-> Channel(rgb.b), a |-> a]

\* inputToRGB followed by the tinycolor constructor
FromObject(o) ==
    IF ~o.ok THEN Invalid
    ELSE IF o.kind = "rgb" THEN MkColor(RgbToRgb(o.c1, o.c2, o.c3), BoundAlpha(o.a))
    ELSE MkColor(HslToRgb(o.c1, ConvertToPercentage(o.c2), ConvertToPercentage(o.c3)),
                 BoundAlpha(o.a))

\* tinycolor(originalColor)
tinycolor(str) == FromObject(StringInputToObject(str))

\* isValid
isValid(c) == c.ok

\* getAlpha
getAlpha(c) == c.a

\* toRgb: the channels rounded
toRgb(c) == [r |-> MathRound(c.r), g |-> MathRound(c.g), b |-> MathRound(c.b)]

\* toHsl
HslWith(hsl, a) == [h |-> RMul(hsl.h, R(360)), s |-> hsl.s, l |-> hsl.l, a |-> a]

toHsl(c) == HslWith(RgbToHsl(c.r, c.g, c.b), c.a)

\* clamp01
Clamp01(x) == RMin(R(1), RMax(R(0), x))

\* A desaturation by a factor: the saturation times (1 - amount / 100).
DesaturatedByFactor(hsl, amount) ==
    FromObject(HslaObj(NumV(hsl.h),
                       NumV(RMul(hsl.s, RSub(R(1), RDiv(R(amount), R(100))))),
                       NumV(hsl.l), NumV(hsl.a)))

\* desaturate(amount): the saturation lowered by amount / 100 and the colour
\* rebuilt from h, s, l and a.
Desaturated(hsl, amount) ==
    FromObject(HslaObj(NumV(hsl.h),
                       NumV(Clamp01(RSub(hsl.s, RDiv(R(amount), R(100))))),
                       NumV(hsl.l), NumV(hsl.a)))

desaturate(c, amount) == Desaturated(toHsl(c), amount)

\* A greyscale that removes half of the saturation only.
greyscaleByHalf(c) == desaturate(c, 50)

\* greyscale
greyscale(c) == desaturate(c, 100)

\* A hex string of the channels cut off, not rounded.
toHexStringFloor(c) ==
    <<"#">> \o PadStart2(ToString16(Floor(c.r)))
            \o PadStart2(ToString16(Floor(c.g)))
            \o PadStart2(ToString16(Floor(c.b)))

\* toHexString: '#' and two hex digits for each rounded channel, no alpha
toHexString(c) ==
    <<"#">> \o PadStart2(ToString16(MathRound(c.r)))
            \o PadStart2(ToString16(MathRound(c.g)))
            \o PadStart2(ToString16(MathRound(c.b)))

(***************************************************************************)
(* grayscale-svg.js: the colour converter                                  *)
(***************************************************************************)

HSL == <<"h","s","l">>
LUMINANCE == <<"l","u","m","i","n","a","n","c","e">>
NONE == <<"n","o","n","e">>
URL == <<"u","r","l","(">>

\* A Map or an attributes object: a function from its keys.
EmptyMap == <<>>

Has(m, k) == k \in DOMAIN m

SetKey(m, k, v) == [x \in (DOMAIN m) \cup {k} |-> IF x = k THEN v ELSE m[x]]

DeleteKey(m, k) == [x \in (DOMAIN m) \ {k} |-> m[x]]

\* Reading a property of an object: undefined when it is absent.
Get(m, k) == IF k \in DOMAIN m THEN m[k] ELSE Undefined

\* The decimal text of a number in a template literal
RECURSIVE ToDecimal(_)
ToDecimal(n) ==
    IF n < 10 THEN <<HexDigits[n + 1]>>
    ELSE ToDecimal(n \div 10) \o <<HexDigits[(n % 10) + 1]>>

\* A cache key that leaves the colour string out.
CacheKeyWithoutColor(originalColor, config) ==
    ToDecimal(config.desaturationAmount) \o <<":">> \o config.grayscaleMethod

\* `${originalColor}:${desaturationAmount}:${grayscaleMethod}`
CacheKey(originalColor, config) ==
    originalColor \o <<":">> \o ToDecimal(config.desaturationAmount)
                  \o <<":">> \o config.grayscaleMethod

\* The luminance with the weights of red and green exchanged.
LuminanceYSwapped(c) ==
    RAdd(RAdd(RMul(<<587, 1000>>, R(MathRound(c.r))), RMul(<<299, 1000>>, R(MathRound(c.g)))),
         RMul(<<114, 1000>>, R(MathRound(c.b))))

\* 0.299 * r + 0.587 * g + 0.114 * b of the rounded channels
LuminanceY(c) ==
    RAdd(RAdd(RMul(<<299, 1000>>, R(toRgb(c).r)), RMul(<<587, 1000>>, R(toRgb(c).g))),
         RMul(<<114, 1000>>, R(toRgb(c).b)))

\* '#' + gray + gray + gray
GrayHex(gray) == <<"#">> \o gray \o gray \o gray

\* A toGray that looks at the amount before it looks at the method.
ComputeGrayAmountFirst(c, config) ==
    IF config.desaturationAmount # 100
    THEN toHexString(desaturate(c, config.desaturationAmount))
    ELSE IF config.grayscaleMethod = LUMINANCE
         THEN GrayHex(PadStart2(ToString16(MathRound(LuminanceY(c)))))
         ELSE toHexString(greyscale(c))

\* The value toGray computes for a colour the parser accepted.
ComputeGray(c, config) ==
    IF config.grayscaleMethod = LUMINANCE
    THEN GrayHex(PadStart2(ToString16(MathRound(LuminanceY(c)))))
    ELSE IF config.desaturationAmount = 100
         THEN toHexString(greyscale(c))
         ELSE toHexString(desaturate(c, config.desaturationAmount))

\* colorCache.set(cacheKey, finalHex); return finalHex
Stored(cache, cacheKey, finalHex) ==
    [value |-> finalHex, cache |-> SetKey(cache, cacheKey, finalHex)]

\* toGray without the isValid test.
ConvertedUnchecked(originalColor, config, cache, c) ==
    Stored(cache, CacheKey(originalColor, config), ComputeGray(c, config))

\* toGray after the cache was missed, c being tinycolor(originalColor)
Converted(originalColor, config, cache, c) ==
    IF ~isValid(c) THEN [value |-> originalColor, cache |-> cache]
    ELSE Stored(cache, CacheKey(originalColor, config), ComputeGray(c, config))

\* toGray(originalColor, config) with config.colorCache = cache: the value
\* returned and the cache afterwards.
toGray(originalColor, config, cache) ==
    IF Has(cache, CacheKey(originalColor, config))
    THEN [value |-> cache[CacheKey(originalColor, config)], cache |-> cache]
    ELSE Converted(originalColor, config, cache, tinycolor(originalColor))

(***************************************************************************)
(* grayscale-svg.js: the passes over one node                              *)
(***************************************************************************)

\* switch (prop): the four recognized properties
RecognizedProps ==
    { <<<<"f","i","l","l">>, "fill">>,
      <<<<"s","t","r","o","k","e">>, "stroke">>,
      <<<<"c","o","l","o","r">>, "color">>,
      <<<<"s","t","o","p","-","c","o","l","o","r">>, "stop-color">> }

IsRecognized(prop) == \E e \in RecognizedProps : e[1] = prop

PropKey(prop) == (CHOOSE e \in RecognizedProps : e[1] = prop)[2]

\* const [prop, val] = decl.split(':').map(x => x.trim())
PartsOf(parts) ==
    [prop |-> Trim(parts[1]),
     val |-> IF Len(parts) >= 2 THEN Trim(parts[2]) ELSE Undefined]

DeclParts(decl) == PartsOf(Split(decl, ":"))

\* switch (prop): a recognized property is assigned, any other one ignored
Assign(attributes, pv) ==
    IF IsRecognized(pv.prop) THEN SetKey(attributes, PropKey(pv.prop), pv.val)
    ELSE attributes

\* if (!decl) return; else the switch on the parts of decl
ApplyDecl(attributes, decl) ==
    IF decl = <<>> THEN attributes ELSE Assign(attributes, DeclParts(decl))

\* decls.forEach: the attributes after the declarations from index i on
RECURSIVE ApplyDecls(_, _, _)
ApplyDecls(attributes, decls, i) ==
    IF i > Len(decls) THEN attributes
    ELSE ApplyDecls(ApplyDecl(attributes, Trim(decls[i])), decls, i + 1)

\* if (node.attributes?.style)
HasStyle(attributes) == Truthy(Get(attributes, "style"))

\* An expansion that keeps the properties of the style only.
ExpandNodeLosesAttributes(attributes) ==
    IF HasStyle(attributes)
    THEN ApplyDecls(EmptyMap, Split(attributes["style"], ";"), 1)
    ELSE attributes

\* The body of expandStyleAttributes for one node: its attributes afterwards.
ExpandNode(attributes) ==
    IF HasStyle(attributes)
    THEN DeleteKey(ApplyDecls(attributes, Split(attributes["style"], ";"), 1), "style")
    ELSE attributes

\* A guard without the test that the attribute is there.
AttrGuardNotNone(v) == v # NONE

\* node.attributes.X && node.attributes.X !== 'none'
AttrGuard(v) == Truthy(v) /\ v # NONE

\* node.attributes.X = toGray(node.attributes.X, config)
Assigned(st, key, g) ==
    [attributes |-> SetKey(st.attributes, key, g.value), cache |-> g.cache, threw |-> st.threw]

\* One of the four blocks of traverseAndGrayscale, on the walker's state
\* st = [attributes, cache, threw] and the value v of the attribute; urlGuard
\* says whether the block tests startsWith('url('). Calling startsWith on a
\* value that is not a string throws a TypeError.
ConvertValue(st, key, urlGuard, config, v) ==
    IF st.threw \/ ~AttrGuard(v) THEN st
    ELSE IF urlGuard /\ ~IsString(v) THEN [st EXCEPT !.threw = TRUE]
    ELSE IF urlGuard /\ StartsWith(v, URL) THEN st
    ELSE Assigned(st, key, toGray(v, config, st.cache))

ConvertAttr(st, key, urlGuard, config) ==
    ConvertValue(st, key, urlGuard, config, Get(st.attributes, key))

\* if (node.name === 'stop' && ...)
StopColor(name, st, config) ==
    IF name = "stop" THEN ConvertAttr(st, "stop-color", FALSE, config) ELSE st

\* The body of traverseAndGrayscale for one node: fill, stroke, color, then
\* stop-color on a node named 'stop'.
WalkNode(node, config, cache) ==
    StopColor(node.name,
              ConvertAttr(ConvertAttr(ConvertAttr(
                  [attributes |-> node.attributes, cache |-> cache, threw |-> FALSE],
                  "fill", TRUE, config), "stroke", TRUE, config), "color", TRUE, config),
              config)

\* The body of detectStyleElements for one node: does it warn?
DetectNode(node) == node.name = "style"

(***************************************************************************)
(* Documents                                                               *)
(***************************************************************************)

\* The elements documents are built from: a tag name and the attributes the
\* parser gives it.
RedRect ==
    [name |-> "rect",
     attributes |-> ("fill" :> <<"#","f","f","0","0","0","0">>) @@
                    ("stroke" :> <<"n","o","n","e">>) @@
                    ("id" :> <<"a">>)]

GradientRect ==
    [name |-> "rect",
     attributes |-> ("fill" :> <<"u","r","l","(","#","g",")">>) @@
                    ("stroke" :> <<"#","f","f","f","f","0","0">>) @@
                    ("color" :> <<"i","n","h","e","r","i","t">>)]

AlphaStop ==
    [name |-> "stop",
     attributes |-> ("stop-color" :> <<"#","f","f","0","0","0","0","8","0">>) @@
                    ("offset" :> <<"0">>)]

UrlStop ==
    [name |-> "stop",
     attributes |-> ("stop-color" :> <<"u","r","l","(","#","r","g","b","(","2","5","5",",","0",",","0",")",")">>) @@
                    ("fill" :> <<"t","r","a","n","s","p","a","r","e","n","t">>)]

Group ==
    [name |-> "g",
     attributes |-> ("stop-color" :> <<"r","e","d">>) @@
                    ("fill" :> <<"c","u","r","r","e","n","t","C","o","l","o","r">>) @@
                    ("transform" :> <<"s","c","a","l","e","(","2",")">>)]

StyledRect ==
    [name |-> "rect",
     attributes |-> ("style" :> <<"f","i","l","l",":","#","f","f","0","0","0","0",";","s","t","r","o","k","e",":","#","0","0","f","f","0","0",";","u","n","k","n","o","w","n","-","p","r","o","p",":","f","o","o">>) @@
                    ("fill" :> <<"n","o","n","e">>)]

EmptyStyleRect ==
    [name |-> "rect",
     attributes |-> ("style" :> <<>>) @@
                    ("fill" :> <<"R","e","d">>)]

StyledPath ==
    [name |-> "path",
     attributes |-> ("style" :> <<"f","i","l","l",":"," ","r","g","b","a","(","2","5","5",",","0",",","0",",","0",".","5",")",";"," ","s","t","r","o","k","e"," ",":","h","s","l","a","(","1","2","0",",","1","0","0","%",",","5","0","%",",","0",".","3",")">>) @@
                    ("d" :> <<"M","0">>)]

StyleElement ==
    [name |-> "style",
     attributes |-> EmptyMap]

BareDeclRect ==
    [name |-> "rect",
     attributes |-> ("style" :> <<"f","i","l","l",";","s","t","r","o","k","e",":">>) @@
                    ("color" :> <<"u","r","l","(","#","r","g","b","(","2","5","5",",","0",",","0",")",")">>)]

UrlStyleRect ==
    [name |-> "rect",
     attributes |-> ("style" :> <<"f","i","l","l",":","u","r","l","(","h","t","t","p",":","/","/","h","/","x","#","g",")">>)]

OpacityRect ==
    [name |-> "rect",
     attributes |-> ("style" :> <<"o","p","a","c","i","t","y",":","1">>) @@
                    ("stroke" :> <<"#","3","3","6","6","9","9">>)]

\* The elements, in the order documents take them.
Catalogue ==
    <<RedRect, GradientRect, AlphaStop, UrlStop, Group, StyledRect,
      EmptyStyleRect, StyledPath, StyleElement, BareDeclRect, UrlStyleRect, OpacityRect>>

\* The root element of every document.
SvgRoot ==
    [name |-> "svg",
     attributes |-> ("viewBox" :> <<"0"," ","0"," ","1"," ","1">>) @@
                    ("fill" :> <<"b","l","u","e">>)]

\* The largest number of elements in a document.
MaxNodes == 3

\* The ascending sequence of a finite set of numbers.
RECURSIVE Ascending(_)
Ascending(S) ==
    IF S = {} THEN <<>>
    ELSE LET m == CHOOSE x \in S : \A y \in S : x <= y
         IN  <<m>> \o Ascending(S \ {m})

\* The parent of each element but the root: the root or the element before.
Shapes(n) == {p \in [2..n -> 1..n] : \A j \in 2..n : p[j] \in {1, j - 1}}

\* A tree as the parser builds it: node k has a name, an attributes object
\* and the ordered list of its children; node 1 is the root.
MkTree(n, p, t) ==
    [k \in 1..n |->
        [name |-> t[k].name,
         attributes |-> t[k].attributes,
         children |-> Ascending({j \in 2..n : p[j] = k})]]

\* The elements below the root: len consecutive elements of a catalogue
\* (taken as a ring), or one element len times.
ElementLists(cat, len) ==
    {[x \in 1..len |-> cat[((j + x - 2) % Len(cat)) + 1]] : j \in DOMAIN cat}
    \cup {[x \in 1..len |-> cat[j]] : j \in DOMAIN cat}

\* The documents of up to MaxNodes elements over a catalogue.
DocsOver(cat) ==
    UNION { { MkTree(n, p, <<SvgRoot>> \o t) :
                p \in Shapes(n), t \in ElementLists(cat, n - 1) } :
            n \in 1..MaxNodes }

Docs == DocsOver(Catalogue)

\* An input text: malformed, or the text of a document.
Malformed == [wellFormed |-> FALSE, doc |-> <<>>]

TextOf(doc) == [wellFormed |-> TRUE, doc |-> doc]

Sources == {Malformed} \cup {TextOf(d) : d \in Docs}

\* The options a caller passes.
Amounts == {0, 50, 100}

Configs ==
    [desaturationAmount : Amounts, grayscaleMethod : {HSL, LUMINANCE}]

(***************************************************************************)
(* convertSvgToGrayscale as a state machine                                *)
(***************************************************************************)

VARIABLES
    source,      \* svgString, the same text for every invocation
    options,     \* options[i]: desaturationAmount and grayscaleMethod of call i
    pc,          \* pc[i]: the step call i is at
    heap,        \* the trees that exist, by reference
    ast,         \* ast[i]: the reference of call i's tree, 0 before parsing
    maps,        \* the Maps that exist, by reference
    colorCache,  \* colorCache[i]: the reference of call i's Map, 0 before step 4
    stack,       \* stack[i]: the nodes the running pass has still to enter
    warnings,    \* warnings[i]: the console.warn calls of call i
    before,      \* before[i]: call i's tree when its walk began
    walked,      \* walked[i]: the nodes traverseAndGrayscale has visited
    result,      \* result[i]: <<text>> once call i has returned
    error,       \* error[i]: what call i threw, "" if nothing
    rounds       \* rounds[i]: how often call i's caller passed its result in again

vars == <<source, options, pc, heap, ast, maps, colorCache, stack, warnings,
          before, walked, result, error, rounds>>

\* One tree for all the calls.
SharedTreeRef(i) == 1

\* parseSync builds a new tree on every call.
NewTreeRef(i) == i

\* new Map() builds a new Map on every call.
NewMapRef(i) == i

\* parseSync(svgString)
parseSync(text) == [ok |-> text.wellFormed, tree |-> text.doc]

\* stringify(ast): the text of the tree
stringify(tree) == TextOf(tree)

InitCalls(calls, sources, configs) ==
    /\ source \in sources
    /\ options \in [calls -> configs]
    /\ pc = [i \in calls |-> "parse"]
    /\ heap = EmptyMap
    /\ ast = [i \in calls |-> 0]
    /\ maps = EmptyMap
    /\ colorCache = [i \in calls |-> 0]
    /\ stack = [i \in calls |-> <<>>]
    /\ warnings = [i \in calls |-> 0]
    /\ before = [i \in calls |-> <<>>]
    /\ walked = [i \in calls |-> <<>>]
    /\ result = [i \in calls |-> <<>>]
    /\ error = [i \in calls |-> ""]
    /\ rounds = [i \in calls |-> 0]

Init == InitCalls({1}, Sources, Configs)

\* A pass that does not enter the children of a node.
EnterNoChildren(tree, stk) == Tail(stk)

\* The stack after entering node n: its children first, in order.
Enter(tree, stk) == tree[Head(stk)].children \o Tail(stk)

\* Step 1: const ast = parseSync(svgString); a parse error leaves the call.
Parse(i) ==
    /\ pc[i] = "parse"
    /\ IF parseSync(source).ok
       THEN /\ heap' = SetKey(heap, NewTreeRef(i), parseSync(source).tree)
            /\ ast' = [ast EXCEPT ![i] = NewTreeRef(i)]
            /\ stack' = [stack EXCEPT ![i] = <<1>>]
            /\ pc' = [pc EXCEPT ![i] = "detect"]
            /\ error' = error
       ELSE /\ pc' = [pc EXCEPT ![i] = "failed"]
            /\ error' = [error EXCEPT ![i] = "parse error"]
            /\ UNCHANGED <<heap, ast, stack>>
    /\ UNCHANGED <<source, options, maps, colorCache, warnings, before, walked, result, rounds>>

\* Step 2: detectStyleElements enters one node.
Detect(i) ==
    /\ pc[i] = "detect"
    /\ LET tree == heap[ast[i]]
           n == Head(stack[i])
           rest == Enter(tree, stack[i])
       IN  /\ warnings' = [warnings EXCEPT ![i] = @ + IF DetectNode(tree[n]) THEN 1 ELSE 0]
           /\ IF rest = <<>>
              THEN /\ pc' = [pc EXCEPT ![i] = "expand"]
                   /\ stack' = [stack EXCEPT ![i] = <<1>>]
              ELSE /\ pc' = pc
                   /\ stack' = [stack EXCEPT ![i] = rest]
    /\ UNCHANGED <<source, options, heap, ast, maps, colorCache, before, walked,
                   result, error, rounds>>

\* Step 3: expandStyleAttributes enters one node.
Expand(i) ==
    /\ pc[i] = "expand"
    /\ LET tree == heap[ast[i]]
           n == Head(stack[i])
           rest == Enter(tree, stack[i])
       IN  /\ heap' = [heap EXCEPT ![ast[i]][n].attributes = ExpandNode(@)]
           /\ IF rest = <<>>
              THEN /\ pc' = [pc EXCEPT ![i] = "cache"]
                   /\ stack' = [stack EXCEPT ![i] = <<>>]
              ELSE /\ pc' = pc
                   /\ stack' = [stack EXCEPT ![i] = rest]
    /\ UNCHANGED <<source, options, ast, maps, colorCache, warnings, before, walked,
                   result, error, rounds>>

\* Step 4, first line: const colorCache = new Map(), and the walk is called.
NewCache(i) ==
    /\ pc[i] = "cache"
    /\ maps' = SetKey(maps, NewMapRef(i), EmptyMap)
    /\ colorCache' = [colorCache EXCEPT ![i] = NewMapRef(i)]
    /\ before' = [before EXCEPT ![i] = heap[ast[i]]]
    /\ stack' = [stack EXCEPT ![i] = <<1>>]
    /\ pc' = [pc EXCEPT ![i] = "walk"]
    /\ UNCHANGED <<source, options, heap, ast, warnings, walked, result, error, rounds>>

\* The walk after the body of traverseAndGrayscale ran on node n and left
\* st: a TypeError leaves the call, else the node and the Map are updated
\* and the children are entered.
Walked(i, n, rest, st) ==
    IF st.threw
    THEN /\ pc' = [pc EXCEPT ![i] = "failed"]
         /\ error' = [error EXCEPT ![i] = "TypeError"]
         /\ UNCHANGED <<heap, maps, stack, walked>>
    ELSE /\ heap' = [heap EXCEPT ![ast[i]][n].attributes = st.attributes]
         /\ maps' = [maps EXCEPT ![colorCache[i]] = st.cache]
         /\ walked' = [walked EXCEPT ![i] = Append(@, n)]
         /\ error' = error
         /\ IF rest = <<>>
            THEN /\ pc' = [pc EXCEPT ![i] = "serialize"]
                 /\ stack' = [stack EXCEPT ![i] = <<>>]
            ELSE /\ pc' = pc
                 /\ stack' = [stack EXCEPT ![i] = rest]

\* Step 4: traverseAndGrayscale enters one node.
Walk(i) ==
    /\ pc[i] = "walk"
    /\ Walked(i, Head(stack[i]), Enter(heap[ast[i]], stack[i]),
              WalkNode(heap[ast[i]][Head(stack[i])], options[i], maps[colorCache[i]]))
    /\ UNCHANGED <<source, options, ast, colorCache, warnings, before, result, rounds>>

\* Step 5: return stringify(ast)
Serialize(i) ==
    /\ pc[i] = "serialize"
    /\ result' = [result EXCEPT ![i] = <<stringify(heap[ast[i]])>>]
    /\ pc' = [pc EXCEPT ![i] = "done"]
    /\ UNCHANGED <<source, options, heap, ast, maps, colorCache, stack, warnings,
                   before, walked, error, rounds>>

Next ==
    \/ \E i \in DOMAIN pc : Parse(i)
    \/ \E i \in DOMAIN pc : Detect(i)
    \/ \E i \in DOMAIN pc : Expand(i)
    \/ \E i \in DOMAIN pc : NewCache(i)
    \/ \E i \in DOMAIN pc : Walk(i)
    \/ \E i \in DOMAIN pc : Serialize(i)

Spec == Init /\ [][Next]_vars

\* Two calls on one source text that run at the same time, as the page's
\* reader.onload and the test runner call the converter once with 'hsl' and
\* once with 'luminance'. The steps of the calls interleave freely.
ConcCalls == {1, 2}

ConcCatalogue == <<RedRect, StyledPath>>

ConcSources == {Malformed} \cup {TextOf(d) : d \in DocsOver(ConcCatalogue)}

ConcConfigs == [desaturationAmount : {100}, grayscaleMethod : {HSL, LUMINANCE}]

InitConc == InitCalls(ConcCalls, ConcSources, ConcConfigs)

SpecConc == InitConc /\ [][Next]_vars

\* The configurations of a full conversion.
FullConversion(config) ==
    config.grayscaleMethod = LUMINANCE \/ config.desaturationAmount = 100

\* The caller passes the text call i returned to convertSvgToGrayscale
\* again, with the same options, unless it is the text it passed before.
\* Only a fully converted text is passed in again: the colours of a partly
\* desaturated one have hues whose exact arithmetic leaves the integers.
Reconvert(i) ==
    /\ pc[i] = "done"
    /\ FullConversion(options[i])
    /\ result[i] # <<source>>
    /\ source' = result[i][1]
    /\ pc' = [pc EXCEPT ![i] = "parse"]
    /\ heap' = DeleteKey(heap, ast[i])
    /\ ast' = [ast EXCEPT ![i] = 0]
    /\ maps' = DeleteKey(maps, colorCache[i])
    /\ colorCache' = [colorCache EXCEPT ![i] = 0]
    /\ stack' = [stack EXCEPT ![i] = <<>>]
    /\ warnings' = [warnings EXCEPT ![i] = 0]
    /\ before' = [before EXCEPT ![i] = <<>>]
    /\ walked' = [walked EXCEPT ![i] = <<>>]
    /\ result' = [result EXCEPT ![i] = <<>>]
    /\ rounds' = [rounds EXCEPT ![i] = @ + 1]
    /\ UNCHANGED <<options, error>>

\* The channel values of the swatches.
Levels == {0, 51, 102, 153, 204, 255}

\* '#' and the two hex digits of each channel
HexOfChannels(r, g, b) ==
    <<"#">> \o PadStart2(ToString16(r)) \o PadStart2(ToString16(g)) \o PadStart2(ToString16(b))

\* A document of one element that is filled with one colour.
Swatch(r, g, b) ==
    <<[name |-> "svg", attributes |-> ("fill" :> HexOfChannels(r, g, b)), children |-> <<>>]>>

\* The channel values of the grey swatches: every value of a channel.
Greys == 0..255

SwatchSources ==
    {TextOf(Swatch(r, g, b)) : r \in Levels, g \in Levels, b \in Levels}
    \cup {TextOf(Swatch(l, l, l)) : l \in Greys}

\* One call on a swatch, whose result the caller may pass in again.
InitGray == InitCalls({1}, SwatchSources, Configs)

NextGray ==
    \/ \E i \in DOMAIN pc : Parse(i)
    \/ \E i \in DOMAIN pc : Detect(i)
    \/ \E i \in DOMAIN pc : Expand(i)
    \/ \E i \in DOMAIN pc : NewCache(i)
    \/ \E i \in DOMAIN pc : Walk(i)
    \/ \E i \in DOMAIN pc : Serialize(i)
    \/ \E i \in DOMAIN pc : Reconvert(i)

SpecGray == InitGray /\ [][NextGray]_vars

\* Two calls on one source text, the second made when the first has
\* returned, as reader.onload and runTests await one call before the next;
\* both use 'luminance' and they differ in desaturationAmount only.
PairCalls == {1, 2}

LuminanceConfigs == [desaturationAmount : Amounts, grayscaleMethod : {LUMINANCE}]

InitPair ==
    /\ InitCalls(PairCalls, Sources, LuminanceConfigs)
    /\ options[1].desaturationAmount < options[2].desaturationAmount

\* Call i's turn: the calls before it have ended.
Turn(i) == \A j \in DOMAIN pc : j < i => pc[j] \in {"done", "failed"}

NextPair ==
    \/ \E i \in DOMAIN pc : Turn(i) /\ Parse(i)
    \/ \E i \in DOMAIN pc : Turn(i) /\ Detect(i)
    \/ \E i \in DOMAIN pc : Turn(i) /\ Expand(i)
    \/ \E i \in DOMAIN pc : Turn(i) /\ NewCache(i)
    \/ \E i \in DOMAIN pc : Turn(i) /\ Walk(i)
    \/ \E i \in DOMAIN pc : Turn(i) /\ Serialize(i)

SpecPair == InitPair /\ [][NextPair]_vars

(***************************************************************************)
(* What the claims speak of                                                *)
(***************************************************************************)

ColorAttrs == {"fill", "stroke", "color", "stop-color"}

\* The nodes call i's walk has visited so far.
Visited(i) == {walked[i][x] : x \in DOMAIN walked[i]}

\* Call i's tree now.
TreeOf(i) == heap[ast[i]]

\* A string that is a literal colour for the colour parser.
IsColor(v) == IsString(v) /\ isValid(tinycolor(v))

\* A grey: R = G = B.
IsGrey(v) == LET rgb == toRgb(tinycolor(v)) IN rgb.r = rgb.g /\ rgb.g = rgb.b

\* A structural token: exactly "none", or beginning with "url(".
IsStructural(v) == IsString(v) /\ (v = NONE \/ StartsWith(v, URL))

\* The attribute k of node is one the walk hands to toGray.
PassedToGray(node, k) ==
    /\ k \in DOMAIN node.attributes
    /\ k \in ColorAttrs
    /\ Truthy(node.attributes[k])
    /\ node.attributes[k] # NONE
    /\ IF k = "stop-color" THEN node.name = "stop"
       ELSE ~StartsWith(node.attributes[k], URL)

\* C1: every colour the parser accepts, of alpha a, is turned by toGray into
\* a colour of the same alpha a, under both methods and every amount.
C1_AlphaPreserved ==
    \A i \in DOMAIN pc : \A n \in Visited(i) : \A k \in ColorAttrs :
        (PassedToGray(before[i][n], k) /\ IsColor(before[i][n].attributes[k]))
        => /\ IsColor(TreeOf(i)[n].attributes[k])
           /\ getAlpha(tinycolor(TreeOf(i)[n].attributes[k]))
                = getAlpha(tinycolor(before[i][n].attributes[k]))

\* C2: an attribute fill, stroke, color or stop-color whose value before the
\* walk was "none" or began with "url(" has the same value after the walk
\* has visited its node, and in the tree that is serialized.
C2_StructuralTokensKept ==
    \A i \in DOMAIN pc : \A n \in Visited(i) : \A k \in ColorAttrs :
        (k \in DOMAIN before[i][n].attributes /\ IsStructural(before[i][n].attributes[k]))
        => /\ k \in DOMAIN TreeOf(i)[n].attributes
           /\ TreeOf(i)[n].attributes[k] = before[i][n].attributes[k]

\* The tree call i hands to the serializer, once it has one.
AtSerializer(i) == pc[i] \in {"serialize", "done"}

SameShape(t, u) ==
    /\ Len(t) = Len(u)
    /\ \A n \in DOMAIN t : t[n].name = u[n].name /\ t[n].children = u[n].children

\* The attribute k is on both nodes with one value, or on neither.
SameAttr(a, b, k) ==
    /\ (k \in DOMAIN a.attributes) <=> (k \in DOMAIN b.attributes)
    /\ k \in DOMAIN a.attributes => a.attributes[k] = b.attributes[k]

AttrNames(t, u) ==
    UNION {DOMAIN t[n].attributes \cup DOMAIN u[n].attributes : n \in DOMAIN t}

\* C3 as stated: the serialized tree has the nodes, names and positions of
\* the parsed input and, but for fill, stroke, color and stop-color, the
\* same attributes with the same values.
C3_OnlyColorAttrsChange ==
    \A i \in DOMAIN pc :
        AtSerializer(i)
        => /\ SameShape(TreeOf(i), source.doc)
           /\ \A n \in DOMAIN source.doc : \A k \in AttrNames(TreeOf(i), source.doc) :
                k \notin ColorAttrs => SameAttr(TreeOf(i)[n], source.doc[n], k)

\* C3 amended: the same, but for style too: a style attribute may be
\* removed, as the expander does; none is added and none is changed.
C3_OnlyColorAndStyleChange ==
    \A i \in DOMAIN pc :
        AtSerializer(i)
        => /\ SameShape(TreeOf(i), source.doc)
           /\ \A n \in DOMAIN source.doc : \A k \in AttrNames(TreeOf(i), source.doc) :
                /\ k \notin ColorAttrs \cup {"style"}
                   => SameAttr(TreeOf(i)[n], source.doc[n], k)
                /\ (k = "style" /\ "style" \in DOMAIN TreeOf(i)[n].attributes)
                   => SameAttr(TreeOf(i)[n], source.doc[n], "style")

\* A document whose serialized tree lost a style attribute and kept another
\* attribute that is no colour.
C3_Witness ==
    \E i \in DOMAIN pc :
        /\ pc[i] = "done"
        /\ \E n \in DOMAIN source.doc :
             /\ Truthy(Get(source.doc[n].attributes, "style"))
             /\ "d" \in DOMAIN TreeOf(i)[n].attributes
             /\ TreeOf(i)[n].attributes # source.doc[n].attributes

\* C4: a value the colour parser rejects comes back from toGray as it was
\* and nothing is raised, and every value the walk hands to toGray that is a
\* colour is converted all the same, on the same node and on the others.
C4_InvalidValuePassesThrough ==
    \A i \in DOMAIN pc :
        /\ error[i] # "TypeError"
        /\ \A n \in Visited(i) : \A k \in ColorAttrs :
             PassedToGray(before[i][n], k)
             => TreeOf(i)[n].attributes[k]
                  = IF IsColor(before[i][n].attributes[k])
                    THEN ComputeGray(tinycolor(before[i][n].attributes[k]), options[i])
                    ELSE before[i][n].attributes[k]

\* The attribute k of node n was handed to toGray and was, or was not, a colour.
Handed(i, n, k, colour) ==
    /\ PassedToGray(before[i][n], k)
    /\ IsColor(before[i][n].attributes[k]) = colour

\* A finished call whose document has a rejected value on a node that also
\* has a colour, with a colour on a node before it and on a node after it.
C4_Witness ==
    \E i \in DOMAIN pc :
        /\ pc[i] = "done"
        /\ \E n \in Visited(i) :
             /\ \E k \in ColorAttrs :
                  /\ Handed(i, n, k, FALSE)
                  /\ TreeOf(i)[n].attributes[k] = before[i][n].attributes[k]
             /\ \E k \in ColorAttrs :
                  /\ Handed(i, n, k, TRUE)
                  /\ TreeOf(i)[n].attributes[k] # before[i][n].attributes[k]
             /\ \E m \in Visited(i) : \E k \in ColorAttrs :
                  m < n /\ Handed(i, m, k, TRUE) /\ IsGrey(TreeOf(i)[m].attributes[k])
             /\ \E m \in Visited(i) : \E k \in ColorAttrs :
                  m > n /\ Handed(i, m, k, TRUE) /\ IsGrey(TreeOf(i)[m].attributes[k])

\* '#' and the grey level three times, in two hex digits each
GreyHex(level) ==
    LET h == PadStart2(ToString16(level)) IN <<"#">> \o h \o h \o h

\* C5: under 'luminance' the grey level is round(0.299 R + 0.587 G + 0.114 B)
\* on all three channels: red gives 0x4c and yellow 0xe2; under 'hsl' at
\* amount 100 red and yellow both give 0x80.
C5_LuminanceLevels ==
    \A i \in DOMAIN pc : \A n \in Visited(i) : \A k \in ColorAttrs :
        Handed(i, n, k, TRUE)
        => LET rgb == toRgb(tinycolor(before[i][n].attributes[k]))
               out == TreeOf(i)[n].attributes[k]
               lum == options[i].grayscaleMethod = LUMINANCE
               full == options[i].desaturationAmount = 100
               red == rgb = [r |-> 255, g |-> 0, b |-> 0]
               yellow == rgb = [r |-> 255, g |-> 255, b |-> 0]
           IN  /\ lum => out = GreyHex((299 * rgb.r + 587 * rgb.g + 114 * rgb.b + 500)
                                          \div 1000)
               /\ lum /\ red => out = <<"#","4","c","4","c","4","c">>
               /\ lum /\ yellow => out = <<"#","e","2","e","2","e","2">>
               /\ ~lum /\ full /\ (red \/ yellow)
                  => out = <<"#","8","0","8","0","8","0">>

\* A finished 'luminance' call that turned a red into 0x4c and a yellow
\* into 0xe2.
C5_Witness ==
    \E i \in DOMAIN pc :
        /\ pc[i] = "done"
        /\ options[i].grayscaleMethod = LUMINANCE
        /\ \E n \in Visited(i) : \E k \in ColorAttrs :
             /\ Handed(i, n, k, TRUE)
             /\ toRgb(tinycolor(before[i][n].attributes[k])) = [r |-> 255, g |-> 0, b |-> 0]
             /\ TreeOf(i)[n].attributes[k] = <<"#","4","c","4","c","4","c">>
        /\ \E n \in Visited(i) : \E k \in ColorAttrs :
             /\ Handed(i, n, k, TRUE)
             /\ toRgb(tinycolor(before[i][n].attributes[k])) = [r |-> 255, g |-> 255, b |-> 0]
             /\ TreeOf(i)[n].attributes[k] = <<"#","e","2","e","2","e","2">>

\* The strings among the attribute values of a tree.
ValuesOf(tree) ==
    {v \in UNION {{tree[n].attributes[k] : k \in DOMAIN tree[n].attributes} :
                    n \in DOMAIN tree} : IsString(v)}

\* C6: at every point of the walk each cache entry holds, for every colour
\* string of its key, what toGray computes for that string with an empty
\* cache, and every visited node is as a walk with an empty cache leaves it.
C6_CacheTransparent ==
    \A i \in DOMAIN pc :
        colorCache[i] # 0
        => LET cache == maps[colorCache[i]]
           IN  /\ \A key \in DOMAIN cache :
                    /\ \E v \in ValuesOf(before[i]) : key = CacheKey(v, options[i])
                    /\ \A v \in ValuesOf(before[i]) :
                         key = CacheKey(v, options[i])
                         => cache[key] = toGray(v, options[i], EmptyMap).value
               /\ \A n \in Visited(i) :
                    TreeOf(i)[n].attributes
                      = WalkNode(before[i][n], options[i], EmptyMap).attributes

\* A walk that met the same colour string on two nodes, the second time
\* with the string already in the cache.
C6_Witness ==
    \E i \in DOMAIN pc :
        \E n \in Visited(i) : \E m \in Visited(i) : \E k \in ColorAttrs : \E j \in ColorAttrs :
            /\ n # m
            /\ Handed(i, n, k, TRUE)
            /\ Handed(i, m, j, TRUE)
            /\ before[i][n].attributes[k] = before[i][m].attributes[j]
            /\ Has(maps[colorCache[i]], CacheKey(before[i][n].attributes[k], options[i]))
            /\ TreeOf(i)[n].attributes[k] = TreeOf(i)[m].attributes[j]
            /\ TreeOf(i)[n].attributes[k] # before[i][n].attributes[k]

\* A call run alone from start to end: the passes one after the other over
\* the nodes in the order the recursion enters them.
ExpandAll(tree) == [n \in DOMAIN tree |-> [tree[n] EXCEPT !.attributes = ExpandNode(@)]]

RECURSIVE PreOrder(_, _)
PreOrder(tree, stk) ==
    IF stk = <<>> THEN <<>> ELSE <<Head(stk)>> \o PreOrder(tree, Enter(tree, stk))

RECURSIVE WalkAll(_, _, _, _)
WalkAll(tree, order, config, cache) ==
    IF order = <<>> THEN tree
    ELSE LET n == Head(order)
             st == WalkNode(tree[n], config, cache)
         IN  WalkAll([tree EXCEPT ![n].attributes = st.attributes], Tail(order),
                     config, st.cache)

RunAlone(text, config) ==
    IF parseSync(text).ok
    THEN <<stringify(WalkAll(ExpandAll(parseSync(text).tree),
                             PreOrder(parseSync(text).tree, <<1>>), config, EmptyMap))>>
    ELSE <<>>

\* C7: of calls that run at the same time each has its own tree and its own
\* cache, and each returns what it returns when run alone.
C7_CallsIndependent ==
    \A i \in DOMAIN pc :
        /\ pc[i] = "done" => result[i] = RunAlone(source, options[i])
        /\ pc[i] # "done" => result[i] = <<>>
        /\ \A j \in DOMAIN pc \ {i} :
             /\ ast[i] # 0 => ast[i] # ast[j]
             /\ colorCache[i] # 0 => colorCache[i] # colorCache[j]

\* Two calls with different methods, both in the middle of their walks, one
\* of which has already turned a colour into another grey than the other will.
C7_Witness ==
    /\ DOMAIN pc = ConcCalls
    /\ pc[1] = "walk" /\ pc[2] = "walk"
    /\ walked[1] # <<>> /\ walked[2] # <<>>
    /\ stack[1] # <<>> /\ stack[2] # <<>>
    /\ options[1].grayscaleMethod # options[2].grayscaleMethod
    /\ TreeOf(1) # TreeOf(2)
    /\ RunAlone(source, options[1]) # RunAlone(source, options[2])

\* C8: a call whose input does not parse fails with the parse error before
\* any later step has run and returns no text; a call whose input parses
\* never fails.
C8_OnlyParseFails ==
    \A i \in DOMAIN pc :
        /\ (~source.wellFormed /\ pc[i] # "parse")
           => /\ pc[i] = "failed"
              /\ error[i] = "parse error"
              /\ result[i] = <<>>
              /\ ast[i] = 0 /\ colorCache[i] = 0
              /\ warnings[i] = 0 /\ walked[i] = <<>> /\ stack[i] = <<>>
        /\ source.wellFormed => pc[i] # "failed" /\ error[i] = ""

\* A call that failed on the parse error.
C8_Witness ==
    \E i \in DOMAIN pc :
        pc[i] = "failed" /\ error[i] = "parse error" /\ ~source.wellFormed

\* C9 as stated: after a call with full conversion, every fill, stroke,
\* color or stop-color attribute whose value is a colour is a grey.
C9_AllColorsGrey ==
    \A i \in DOMAIN pc :
        (pc[i] = "done" /\ FullConversion(options[i]))
        => \A n \in DOMAIN TreeOf(i) : \A k \in ColorAttrs :
             (k \in DOMAIN TreeOf(i)[n].attributes /\ IsColor(TreeOf(i)[n].attributes[k]))
             => IsGrey(TreeOf(i)[n].attributes[k])

\* C9 amended: after a call with full conversion, every fill, stroke or
\* color attribute whose value does not begin with "url(", and every
\* stop-color attribute of an element named stop, is a grey if its value is
\* a colour.
C9_WalkedColorsGrey ==
    \A i \in DOMAIN pc :
        (pc[i] = "done" /\ FullConversion(options[i]))
        => \A n \in DOMAIN TreeOf(i) : \A k \in ColorAttrs :
             (/\ k \in DOMAIN TreeOf(i)[n].attributes
              /\ IsColor(TreeOf(i)[n].attributes[k])
              /\ IF k = "stop-color" THEN TreeOf(i)[n].name = "stop"
                 ELSE ~StartsWith(TreeOf(i)[n].attributes[k], URL))
             => IsGrey(TreeOf(i)[n].attributes[k])

\* A finished call with full conversion whose output has a grey that the
\* input gave as a colour, not a grey, in an inline style only.
C9_Witness ==
    \E i \in DOMAIN pc :
        /\ pc[i] = "done" /\ FullConversion(options[i])
        /\ \E n \in DOMAIN TreeOf(i) : \E k \in ColorAttrs :
             /\ k \notin DOMAIN source.doc[n].attributes
             /\ HasStyle(source.doc[n].attributes)
             /\ k \in DOMAIN before[i][n].attributes
             /\ IsColor(before[i][n].attributes[k])
             /\ ~IsGrey(before[i][n].attributes[k])
             /\ IsGrey(TreeOf(i)[n].attributes[k])

\* The declarations of a style text, each cut at its first ':' only: the
\* property before it and the whole value after it, both trimmed.
FirstColon(decl) == CHOOSE x \in DOMAIN decl : decl[x] = ":" /\ \A y \in 1..(x - 1) : decl[y] # ":"

Declared(style) ==
    LET decls == Split(style, ";")
    IN  [x \in {y \in DOMAIN decls : \E z \in DOMAIN decls[y] : decls[y][z] = ":"} |->
            [prop |-> Trim(SubSeq(decls[x], 1, FirstColon(decls[x]) - 1)),
             val |-> Trim(SubSeq(decls[x], FirstColon(decls[x]) + 1, Len(decls[x])))]]

\* C10: after expandStyleAttributes no node that had a style attribute has
\* one, whatever its value; each recognized property of the style is a
\* direct attribute with the value declared (the last one declared for it),
\* and no other attribute has come to the node.
C10_StyleExpanded ==
    \A i \in DOMAIN pc :
        before[i] # <<>>
        => \A n \in DOMAIN source.doc :
             LET old == source.doc[n].attributes
                 new == before[i][n].attributes
             IN  /\ "style" \notin DOMAIN new
                 /\ DOMAIN new \subseteq (DOMAIN old \cup ColorAttrs)
                 /\ "style" \in DOMAIN old
                    => LET d == Declared(old["style"])
                       IN  \A x \in DOMAIN d :
                             (/\ IsRecognized(d[x].prop)
                              /\ \A y \in DOMAIN d : y > x => d[y].prop # d[x].prop)
                             => /\ PropKey(d[x].prop) \in DOMAIN new
                                /\ new[PropKey(d[x].prop)] = d[x].val

\* C11: under 'hsl' with amount 100 a text that is itself a result of the
\* conversion, and every grey #gggggg, is returned as it is: converting
\* twice gives what converting once gives.
C11_HslFullIdempotent ==
    \A i \in DOMAIN pc :
        (/\ pc[i] = "done"
         /\ rounds[i] >= 1 \/ \E l \in Greys : source = TextOf(Swatch(l, l, l))
         /\ options[i].grayscaleMethod = HSL
         /\ options[i].desaturationAmount = 100)
        => result[i] = <<source>>

\* A second 'hsl' conversion at 100 that has returned, of a grey that the
\* first one made of a colour that was no grey.
C11_Witness ==
    \E i \in DOMAIN pc :
        /\ pc[i] = "done"
        /\ rounds[i] = 1
        /\ options[i].grayscaleMethod = HSL
        /\ options[i].desaturationAmount = 100
        /\ result[i] = <<source>>
        /\ Visited(i) = {1}
        /\ IsGrey(TreeOf(i)[1].attributes["fill"])
        /\ TreeOf(i)[1].attributes["fill"] \notin {HexOfChannels(l, l, l) : l \in Levels}

\* C12: two 'luminance' calls on one input that differ in desaturationAmount
\* only return the same text, and toGray has given both the same value for
\* every colour string it was handed.
C12_LuminanceIgnoresAmount ==
    (\A i \in DOMAIN pc : pc[i] = "done")
    => \A i \in DOMAIN pc : \A j \in DOMAIN pc :
         (/\ options[i].grayscaleMethod = LUMINANCE
          /\ options[j].grayscaleMethod = LUMINANCE)
         => /\ result[i] = result[j]
            /\ \A v \in ValuesOf(before[i]) :
                 Has(maps[colorCache[i]], CacheKey(v, options[i]))
                 => /\ Has(maps[colorCache[j]], CacheKey(v, options[j]))
                    /\ maps[colorCache[j]][CacheKey(v, options[j])]
                         = maps[colorCache[i]][CacheKey(v, options[i])]

\* Two finished 'luminance' calls with different amounts whose common
\* result has a grey that was a colour and no grey in the input.
C12_Witness ==
    /\ DOMAIN pc = PairCalls
    /\ pc[1] = "done" /\ pc[2] = "done"
    /\ options[1].grayscaleMethod = LUMINANCE
    /\ options[2].grayscaleMethod = LUMINANCE
    /\ options[1].desaturationAmount # options[2].desaturationAmount
    /\ result[1] = result[2]
    /\ \E n \in Visited(1) : \E k \in ColorAttrs :
         /\ Handed(1, n, k, TRUE)
         /\ ~IsGrey(before[1][n].attributes[k])
         /\ IsGrey(TreeOf(2)[n].attributes[k])

\* The exact hue, saturation and lightness of the rounded channels of a colour.
ExactHsl(rgb) ==
    HslOfChannels(RDiv(R(rgb.r), R(255)), RDiv(R(rgb.g), R(255)), RDiv(R(rgb.b), R(255)))

\* The saturation s with amount / 100 taken off it, not below 0, and the
\* saturation s with amount percent of itself taken off it.
LoweredBy(s, amount) == Clamp01(RSub(s, RDiv(R(amount), R(100))))

ScaledBy(s, amount) == RMul(s, RSub(R(1), RDiv(R(amount), R(100))))

\* Less than one channel step apart.
NearChannel(x, y) == RLt(RSub(x, y), R(1)) /\ RLt(RSub(y, x), R(1))

NearRgb(rgb, exact) ==
    /\ NearChannel(R(rgb.r), exact.r)
    /\ NearChannel(R(rgb.g), exact.g)
    /\ NearChannel(R(rgb.b), exact.b)

\* The lightness of rounded channels: (max + min) / 2 of the channels in [0, 1].
LightnessOf(rgb) == ExactHsl(rgb).l

\* The value toGray returned is, up to the rounding of its channels, the
\* colour of the input's hue and lightness and of saturation sat.
IsDesaturatedTo(out, hsl, sat) == NearRgb(toRgb(tinycolor(out)), RgbOfHsl(hsl.h, sat, hsl.l))

\* A partial 'hsl' conversion that has returned.
PartialHsl(i) ==
    /\ pc[i] = "done"
    /\ rounds[i] = 0
    /\ options[i].grayscaleMethod = HSL
    /\ options[i].desaturationAmount < 100

\* C13 as stated: under 'hsl' with an amount below 100 the result has the
\* input's lightness and the input's saturation times (1 - amount / 100),
\* and amount 0 keeps R, G and B.
C13_SaturationScaled ==
    \A i \in DOMAIN pc : PartialHsl(i) =>
        \A n \in Visited(i) : \A k \in ColorAttrs : Handed(i, n, k, TRUE) =>
            /\ IsDesaturatedTo(TreeOf(i)[n].attributes[k],
                               ExactHsl(toRgb(tinycolor(before[i][n].attributes[k]))),
                               ScaledBy(ExactHsl(toRgb(tinycolor(before[i][n].attributes[k]))).s,
                                        options[i].desaturationAmount))
            /\ options[i].desaturationAmount = 0
               => toRgb(tinycolor(TreeOf(i)[n].attributes[k]))
                    = toRgb(tinycolor(before[i][n].attributes[k]))

\* C13, amended: under 'hsl' with an amount below 100 the result is, up to
\* the rounding of its channels (each less than one step away, so the
\* lightness less than 1/255 away), the colour of the input's hue and
\* lightness and of the input's saturation minus amount / 100, not below 0;
\* it is a grey whenever the input's saturation is at most amount / 100;
\* and amount 0 keeps R, G and B.
C13_SaturationLowered ==
    \A i \in DOMAIN pc : PartialHsl(i) =>
        \A n \in Visited(i) : \A k \in ColorAttrs : Handed(i, n, k, TRUE) =>
            /\ IsDesaturatedTo(TreeOf(i)[n].attributes[k],
                               ExactHsl(toRgb(tinycolor(before[i][n].attributes[k]))),
                               LoweredBy(ExactHsl(toRgb(tinycolor(before[i][n].attributes[k]))).s,
                                         options[i].desaturationAmount))
            /\ NearChannel(RMul(R(255), LightnessOf(toRgb(tinycolor(TreeOf(i)[n].attributes[k])))),
                           RMul(R(255), LightnessOf(toRgb(tinycolor(before[i][n].attributes[k])))))
            /\ RLe(ExactHsl(toRgb(tinycolor(before[i][n].attributes[k]))).s,
                   RDiv(R(options[i].desaturationAmount), R(100)))
               => IsGrey(TreeOf(i)[n].attributes[k])
            /\ options[i].desaturationAmount = 0
               => toRgb(tinycolor(TreeOf(i)[n].attributes[k]))
                    = toRgb(tinycolor(before[i][n].attributes[k]))

\* An 'hsl' conversion at 50 that has returned and has made a grey of a
\* colour of positive saturation: #336699, of saturation 1/2, is #666666.
C13_Witness ==
    \E i \in DOMAIN pc :
        /\ PartialHsl(i)
        /\ options[i].desaturationAmount = 50
        /\ \E n \in Visited(i) :
             /\ Handed(i, n, "fill", TRUE)
             /\ before[i][n].attributes["fill"] = HexOfChannels(51, 102, 153)
             /\ ExactHsl(toRgb(tinycolor(before[i][n].attributes["fill"]))).s = <<1, 2>>
             /\ TreeOf(i)[n].attributes["fill"] = HexOfChannels(102, 102, 102)

\* C14: expandStyleAttributes cuts each declaration at its first ':' only;
\* a recognized declaration is copied to the direct attribute with the whole
\* trimmed text after that ':' as its value, also when the value holds a ':'.
C14_SplitAtFirstColon ==
    \A i \in DOMAIN pc :
        before[i] # <<>>
        => \A n \in DOMAIN source.doc :
             HasStyle(source.doc[n].attributes)
             => \A x \in DOMAIN Declared(source.doc[n].attributes["style"]) :
                  (/\ IsRecognized(Declared(source.doc[n].attributes["style"])[x].prop)
                   /\ \A y \in DOMAIN Declared(source.doc[n].attributes["style"]) :
                        y > x => Declared(source.doc[n].attributes["style"])[y].prop
                                   # Declared(source.doc[n].attributes["style"])[x].prop)
                  => Get(before[i][n].attributes,
                         PropKey(Declared(source.doc[n].attributes["style"])[x].prop))
                       = Declared(source.doc[n].attributes["style"])[x].val

\* The steps of convertSvgToGrayscale in their order; step 4 is the new Map
\* and the walk called with it, and only parsing may leave early.
StepOrder ==
    { <<"parse", "detect">>, <<"parse", "failed">>, <<"detect", "expand">>,
      <<"expand", "cache">>, <<"cache", "walk">>, <<"walk", "serialize">>,
      <<"serialize", "done">> }

\* The walk of call i enters one more node, one it has not entered before.
EntersNewNode(i) ==
    /\ Len(walked'[i]) = Len(walked[i]) + 1
    /\ SubSeq(walked'[i], 1, Len(walked[i])) = walked[i]
    /\ walked'[i][Len(walked'[i])] \in DOMAIN TreeOf(i)
    /\ walked'[i][Len(walked'[i])] \notin Visited(i)

\* The attribute k of node n of call i came from the inline style only and
\* was handed to toGray as a colour.
FromStyleOnly(i, n, k) ==
    /\ HasStyle(source.doc[n].attributes)
    /\ k \notin DOMAIN source.doc[n].attributes
    /\ Handed(i, n, k, TRUE)

\* What one step of call i must respect.
InOrder(i) ==
    /\ pc'[i] # pc[i] => <<pc[i], pc'[i]>> \in StepOrder
    /\ pc[i] \in {"parse", "detect", "expand", "cache"}
       => walked[i] = <<>> /\ colorCache[i] = 0 /\ result[i] = <<>>
    /\ walked'[i] # walked[i]
       => /\ pc[i] = "walk"
          /\ before[i] = ExpandAll(parseSync(source).tree)
          /\ \A n \in DOMAIN TreeOf(i) : n \notin Visited(i) => TreeOf(i)[n] = before[i][n]
          /\ walked[i] = <<>> => maps[colorCache[i]] = EmptyMap
          /\ EntersNewNode(i)
    /\ result'[i] # result[i]
       => /\ pc[i] = "serialize"
          /\ Len(walked[i]) = Len(TreeOf(i))
          /\ Visited(i) = DOMAIN TreeOf(i)
          /\ \A n \in DOMAIN TreeOf(i) : \A k \in ColorAttrs :
               FromStyleOnly(i, n, k)
               => result'[i][1].doc[n].attributes[k]
                    = ComputeGray(tinycolor(before[i][n].attributes[k]), options[i])

\* C15: every step of every call keeps the order parse, detect, expand,
\* walk, serialize: when the walk converts its first node the expander has
\* run on every node and the cache is empty, the walk enters each node once,
\* the text is made only when every node has been entered exactly once, and
\* a colour written in an inline style only is converted in that text.
C15_StrictOrder == [][\A i \in DOMAIN pc : InOrder(i)]_vars

\* A call that has returned the text of a tree of three nodes, each entered
\* once, in which a colour that was written in an inline style only has
\* been converted.
C15_Witness ==
    \E i \in DOMAIN pc :
        /\ pc[i] = "done"
        /\ result[i] = <<stringify(TreeOf(i))>>
        /\ Len(walked[i]) = 3
        /\ Visited(i) = DOMAIN TreeOf(i)
        /\ \E n \in DOMAIN TreeOf(i) :
             /\ FromStyleOnly(i, n, "fill")
             /\ "style" \notin DOMAIN TreeOf(i)[n].attributes
             /\ result[i][1].doc[n].attributes["fill"] # before[i][n].attributes["fill"]
             /\ result[i][1].doc[n].attributes["fill"]
                  = ComputeGray(tinycolor(before[i][n].attributes["fill"]), options[i])

\* C16: in every tree, from parsing on, through expandStyleAttributes and
\* traverseAndGrayscale, every attribute present on every node has a string
\* as its value; none is undefined.
C16_AttributesAreStrings ==
    \A i \in DOMAIN pc :
        ast[i] # 0
        => \A n \in DOMAIN TreeOf(i) : \A k \in DOMAIN TreeOf(i)[n].attributes :
             IsString(TreeOf(i)[n].attributes[k])

====
